---- MODULE Spec2Model ----
(***************************************************************************)
(* A model of ls-rs (src/src/main.rs): entry collection, the comparator    *)
(* and the two sort paths, the traversal driver, the name cache and the    *)
(* multi-column layout.                                                    *)
(*                                                                         *)
(* Strings are sequences of byte values (ASCII), so that to_lowercase and  *)
(* the byte-wise lexicographic String::cmp are modelled by what they do.   *)
(***************************************************************************)
EXTENDS Integers, Sequences, FiniteSets, TLC

VARIABLES
    phase,      \* position of the pipeline of list_directory
    config,     \* the Config passed to list_directory
    raw,        \* the Vec<Entry> collect_entries returned (collector order)
    entries,    \* the Vec<Entry> after the sort step
    fs,         \* the file system: path -> what lstat and readdir answer
    gone,       \* names whose symlink_metadata failed during the collection
    result,     \* the io::Result collect_entries returned
    stderr,     \* the diagnostics written with eprintln!
    paths,      \* main: the requested paths (args.paths)
    pi,         \* main: index of the next path of the for loop
    stack,      \* the active list_directory calls, innermost last
    stdout,     \* what was written to stdout, in order
    long_calls, \* calls of print_long_format begun so far
    owners,     \* print_long_format: (uid, gid) of each entry
    cache,      \* USER_CACHE and GROUP_CACHE: key -> cached name
    lock,       \* the write lock of each shard of the two maps
    todo,       \* pre-warm: indices of owners no worker has taken yet
    rpos,       \* rendering loop: number of the next resolve call
    thread,     \* per thread: position in its resolve call and its key
    lookups,    \* per key: system lookups performed
    answers,    \* the (id, name) pairs resolve calls returned
    names,      \* print_multi_column_down: the decorated names
    winsize,    \* what terminal_size() answers
    reads,      \* the indices at which names was read, in order
    input,      \* format_size, format_time: the argument of the call
    ret,        \* format_size, format_time: what the call returned
    now         \* SystemTime::now()

vars == <<phase, config, raw, entries, fs, gone, result, stderr,
          paths, pi, stack, stdout,
          long_calls, owners, cache, lock, todo, rpos, thread, lookups,
          answers, names, winsize, reads, input, ret, now>>

\* The variables of the name cache, unused by the other pipelines.
cacheVars ==
    <<long_calls, owners, cache, lock, todo, rpos, thread, lookups,
      answers>>

\* The variables of the column layout and of the formatting functions,
\* unused by the other pipelines.
layoutVars == <<names, winsize, reads, input, ret, now>>

LayoutIdle ==
    /\ names = <<>>
    /\ winsize = <<>>
    /\ reads = <<>>
    /\ input = <<>>
    /\ ret = <<>>
    /\ now = <<>>

CacheIdle ==
    /\ long_calls = 0
    /\ owners = <<>>
    /\ cache = <<>>
    /\ lock = <<>>
    /\ todo = {}
    /\ rpos = 1
    /\ thread = <<>>
    /\ lookups = <<>>
    /\ answers = {}

\* The variables of the traversal driver, unused by the single-step
\* pipelines.
driverVars == <<paths, pi, stack, stdout>>

DriverIdle ==
    /\ paths = <<>>
    /\ pi = 1
    /\ stack = <<>>
    /\ stdout = <<>>

----------------------------------------------------------------------------
(* Bounds *)

\* Largest number of entries of one directory.
MaxEntries == 3

\* PARALLEL_SORT_THRESHOLD is 1000 in the source (main.rs:276).  It is scaled
\* to the size of the directories explored here, so that directories at most
\* this long take the sequential path and longer ones the parallel path.
PARALLEL_SORT_THRESHOLD == 2

----------------------------------------------------------------------------
(* Strings *)

\* "a", "Ab", "aB", "B"
Names == { <<97>>, <<65, 98>>, <<97, 66>>, <<66>> }

\* str::to_lowercase on ASCII: 'A'..'Z' (65..90) map to 'a'..'z'.
to_lowercase(s) ==
    [i \in DOMAIN s |-> IF s[i] \in 65..90 THEN s[i] + 32 ELSE s[i]]

\* Ordering::reverse
reverse(o) ==
    CASE o = "Less" -> "Greater"
      [] o = "Greater" -> "Less"
      [] OTHER -> "Equal"

\* Ord::cmp on integers
cmp_int(x, y) ==
    IF x < y THEN "Less" ELSE IF x > y THEN "Greater" ELSE "Equal"

\* String::cmp: byte-wise lexicographic, a proper prefix is Less.
cmp_str(a, b) ==
    LET n == IF Len(a) < Len(b) THEN Len(a) ELSE Len(b)
        diff == {i \in 1..n : a[i] # b[i]}
    IN  IF diff = {}
        THEN cmp_int(Len(a), Len(b))
        ELSE LET k == CHOOSE i \in diff : \A j \in diff : i <= j
             IN  cmp_int(a[k], b[k])

----------------------------------------------------------------------------
(* Entries and configuration *)

\* The metadata snapshots explored: byte length and the three timestamps.
\* They tie and differ on the length and on each timestamp field.
Metadata ==
    { [len |-> 0, mtime |-> 1, ctime |-> 1, atime |-> 2],
      [len |-> 0, mtime |-> 1, ctime |-> 2, atime |-> 1],
      [len |-> 1, mtime |-> 1, ctime |-> 1, atime |-> 2],
      [len |-> 1, mtime |-> 2, ctime |-> 1, atime |-> 1] }

SortBy == {"Name", "Time", "Size", "Unsorted"}

TimeField == {"Modify", "Change", "Access", "Birth"}

\* struct Entry, reduced to the fields the comparator reads
Entry == [name : Names, metadata : Metadata]

get_time_field(metadata, field) ==
    CASE field = "Modify" -> metadata.mtime
      [] field = "Change" -> metadata.ctime
      [] field = "Access" -> metadata.atime
      [] field = "Birth"  -> metadata.ctime

\* The closure of the Name arm.
compare_name(a, b, cfg) ==
    LET cmp == cmp_str(to_lowercase(a.name), to_lowercase(b.name))
    IN  IF cfg.reverse THEN reverse(cmp) ELSE cmp

\* The closure of the Time arm.
compare_time(a, b, cfg) ==
    LET a_time == get_time_field(a.metadata, cfg.time_field)
        b_time == get_time_field(b.metadata, cfg.time_field)
        cmp == reverse(cmp_int(a_time, b_time))
    IN  IF cmp = "Equal"
        THEN LET name_cmp == cmp_str(to_lowercase(a.name), to_lowercase(b.name))
             IN  IF cfg.reverse THEN reverse(name_cmp) ELSE name_cmp
        ELSE IF cfg.reverse THEN reverse(cmp) ELSE cmp

\* compare_size with only the primary key reversed under reverse.
compare_size_primary_only(a, b, cfg) ==
    LET cmp == reverse(cmp_int(a.metadata.len, b.metadata.len))
    IN  IF cmp = "Equal"
        THEN cmp_str(to_lowercase(a.name), to_lowercase(b.name))
        ELSE IF cfg.reverse THEN reverse(cmp) ELSE cmp

\* The closure of the Size arm.
compare_size(a, b, cfg) ==
    LET a_size == a.metadata.len
        b_size == b.metadata.len
        cmp == reverse(cmp_int(a_size, b_size))
    IN  IF cmp = "Equal"
        THEN LET name_cmp == cmp_str(to_lowercase(a.name), to_lowercase(b.name))
             IN  IF cfg.reverse THEN reverse(name_cmp) ELSE name_cmp
        ELSE IF cfg.reverse THEN reverse(cmp) ELSE cmp

\* The comparator list_directory hands to the sort under cfg.sort.
compare(a, b, cfg) ==
    CASE cfg.sort = "Name" -> compare_name(a, b, cfg)
      [] cfg.sort = "Time" -> compare_time(a, b, cfg)
      [] cfg.sort = "Size" -> compare_size(a, b, cfg)
      [] OTHER -> "Equal"

----------------------------------------------------------------------------
(* The two sort paths *)

\* Insert x into the sorted sequence s behind every element that does not
\* compare Greater than it: equal elements keep their order.
RECURSIVE insert_stable(_, _, _)
insert_stable(s, x, cfg) ==
    IF s = <<>> THEN <<x>>
    ELSE IF compare(s[Len(s)], x, cfg) = "Greater"
         THEN Append(insert_stable(SubSeq(s, 1, Len(s) - 1), x, cfg), s[Len(s)])
         ELSE Append(s, x)

\* slice::sort_by: a stable sort, run on the calling thread.
RECURSIVE sort_by(_, _)
sort_by(s, cfg) ==
    IF s = <<>> THEN <<>>
    ELSE insert_stable(sort_by(SubSeq(s, 1, Len(s) - 1), cfg), s[Len(s)], cfg)

\* par_merge taking the element of the right run on a tie.
RECURSIVE par_merge_right_first(_, _, _)
par_merge_right_first(l, r, cfg) ==
    IF l = <<>> THEN r
    ELSE IF r = <<>> THEN l
    ELSE IF compare(r[1], l[1], cfg) # "Greater"
         THEN <<r[1]>> \o par_merge_right_first(l, Tail(r), cfg)
         ELSE <<l[1]>> \o par_merge_right_first(Tail(l), r, cfg)

\* The merge of two sorted runs; on a tie the element of the left run goes
\* first, which is what keeps the parallel sort stable.
RECURSIVE par_merge(_, _, _)
par_merge(l, r, cfg) ==
    IF l = <<>> THEN r
    ELSE IF r = <<>> THEN l
    ELSE IF compare(r[1], l[1], cfg) = "Less"
         THEN <<r[1]>> \o par_merge(l, Tail(r), cfg)
         ELSE <<l[1]>> \o par_merge(Tail(l), r, cfg)

\* rayon's par_sort_by: the slice is split, the parts are sorted by the
\* workers and the sorted runs are merged; a stable sort.
RECURSIVE par_sort_by(_, _)
par_sort_by(s, cfg) ==
    IF Len(s) <= 1 THEN s
    ELSE LET mid == Len(s) \div 2
         IN  par_merge(par_sort_by(SubSeq(s, 1, mid), cfg),
                       par_sort_by(SubSeq(s, mid + 1, Len(s)), cfg), cfg)

\* The match on config.sort of list_directory.
sort_entries(es, cfg) ==
    IF cfg.sort = "Unsorted" THEN es
    ELSE IF Len(es) > PARALLEL_SORT_THRESHOLD
         THEN par_sort_by(es, cfg)
         ELSE sort_by(es, cfg)

----------------------------------------------------------------------------
(* The file system and collect_entries *)

\* "." and ".."
Dot == <<46>>
DotDot == <<46, 46>>

\* What lstat answers for a path: the file type, the metadata the comparator
\* reads, for a directory the names its directory stream yields (readdir(3),
\* "." and ".." included), for a symbolic link its target.
Node(kind, len, mtime, stream, target) ==
    [kind |-> kind, len |-> len, mtime |-> mtime, ctime |-> mtime,
     atime |-> mtime, stream |-> stream, target |-> target]

None == <<>>

RangeOf(s) == {s[i] : i \in DOMAIN s}

Err(e) == [ok |-> FALSE, error |-> e, entries |-> <<>>]

Ok(es) == [ok |-> TRUE, error |-> "", entries |-> es]

\* name.starts_with('.')
starts_with_dot(name) == Len(name) > 0 /\ name[1] = 46

\* The dotfile filter of the filter_map closure, lines 427-441: TRUE when the
\* closure returns Some.
keep_name(name, cfg) ==
    IF starts_with_dot(name)
    THEN IF cfg.all THEN TRUE
         ELSE IF cfg.almost_all THEN ~(name = Dot \/ name = DotDot)
         ELSE FALSE
    ELSE TRUE

\* std::fs::read_dir over a directory stream: the iterator skips the entries
\* for the current and the parent directory and yields the rest in stream
\* order.
read_dir(stream) ==
    LET Real(n) == n # Dot /\ n # DotDot
    IN  SelectSeq(stream, Real)

\* entry_data, lines 421-443
entry_data(dir_entries, cfg) ==
    LET Keep(n) == keep_name(n, cfg)
    IN  SelectSeq(dir_entries, Keep)

\* The Entry built from the metadata of what the path leads to (fs::metadata),
\* a symbolic link being followed.
make_entry_follow(name, path) ==
    LET link == fs[path]
        is_symlink == link.kind = "symlink"
        metadata == IF is_symlink /\ link.target \in DOMAIN fs
                    THEN fs[link.target] ELSE link
    IN  [name |-> name, path |-> path, metadata |-> metadata,
         is_symlink |-> is_symlink,
         symlink_target |-> IF is_symlink THEN link.target ELSE None]

\* The Entry built from a successful symlink_metadata, lines 449-463 and
\* 397-414.
make_entry(name, path) ==
    LET metadata == fs[path]
        is_symlink == metadata.kind = "symlink"
    IN  [name |-> name, path |-> path, metadata |-> metadata,
         is_symlink |-> is_symlink,
         symlink_target |-> IF is_symlink THEN metadata.target ELSE None]

\* stat_entries with a failed metadata lookup propagated as the error of the
\* whole collection.
stat_entries_abort(data, path, failed) ==
    IF \E i \in DOMAIN data : data[i] \in failed
    THEN Err("NotFound")
    ELSE Ok([i \in DOMAIN data |-> make_entry(data[i], Append(path, data[i]))])

\* The parallel filter_map over entry_data, lines 446-467: a candidate whose
\* symlink_metadata fails (its name is in failed) yields None; collect() keeps
\* the others in the order of entry_data.
stat_entries(data, path, failed) ==
    LET Alive(n) == n \notin failed
        alive == SelectSeq(data, Alive)
    IN  Ok([i \in DOMAIN alive |->
               make_entry(alive[i], Append(path, alive[i]))])

\* collect_entries, lines 394-468.  io_error is the error of the first system
\* call on path itself ("" when it succeeds), failed the names whose
\* symlink_metadata fails after the enumeration.
collect_entries(path, cfg, io_error, failed) ==
    IF path \in DOMAIN fs /\ fs[path].kind \in {"file", "symlink"}
    THEN IF io_error # "" THEN Err(io_error)
         ELSE Ok(<<make_entry(path[Len(path)], path)>>)
    ELSE IF path \notin DOMAIN fs THEN Err("NotFound")
    ELSE IF fs[path].kind # "dir" THEN Err("NotADirectory")
    ELSE IF io_error # "" THEN Err(io_error)
    ELSE stat_entries(entry_data(read_dir(fs[path].stream), cfg), path, failed)

\* eprintln!("ls: {}: {}", path.display(), e); arg tells which iteration of
\* main's loop wrote it.
diagnostic(path, e, arg) == [path |-> path, error |-> e, arg |-> arg]

----------------------------------------------------------------------------
(* Collection of one directory *)

\* ".hidden" (as ".h"), "visible" (as "v"), ".x", "B"
ChildNames == { <<46, 104>>, <<118>>, <<46, 120>>, <<66>> }

\* "d", the directory listed
DirPath == << <<100>> >>

\* The orders in which a directory stream can yield the names of set S.
RECURSIVE StreamsOf(_)
StreamsOf(S) ==
    IF S = {} THEN {<<>>}
    ELSE UNION { { <<n>> \o t : t \in StreamsOf(S \ {n}) } : n \in S }

\* The file type of a child, fixed by its name.
ChildKind(n) ==
    CASE n = <<46, 120>> -> "dir"
      [] n = <<66>> -> "symlink"
      [] OTHER -> "file"

\* A file system holding the directory "d" with the children S, enumerated
\* in the order of stream.
DirFs(S, stream) ==
    [p \in {DirPath} \cup {Append(DirPath, n) : n \in S} |->
        IF p = DirPath
        THEN Node("dir", 0, 1, stream, None)
        ELSE Node(ChildKind(p[2]), 0, 1, <<>>, <<Dot>>)]

CollectConfig == [all : BOOLEAN, almost_all : BOOLEAN]

IoErrors == {"", "PermissionDenied"}

InitCollect ==
    /\ phase = "start"
    /\ config \in CollectConfig
    /\ \E S \in SUBSET ChildNames :
         /\ Cardinality(S) <= MaxEntries
         /\ \E stream \in StreamsOf(S \cup {Dot, DotDot}) :
              fs = DirFs(S, stream)
    /\ raw = <<>>
    /\ entries = <<>>
    /\ gone = {}
    /\ result = Ok(<<>>)
    /\ stderr = <<>>
    /\ DriverIdle
    /\ CacheIdle
    /\ LayoutIdle

\* list_directory line 273 under main, lines 266-268: collect_entries runs on
\* the directory; opening it may fail; when it is enumerated, some of the
\* candidates may fail their metadata lookup (removed since the enumeration).
\* An Err is reported by the caller.
CollectStep ==
    /\ phase = "start"
    /\ \E io_error \in IoErrors,
          failed \in SUBSET RangeOf(
                       entry_data(read_dir(fs[DirPath].stream), config)) :
         /\ io_error # "" => failed = {}
         /\ gone' = failed
         /\ result' = collect_entries(DirPath, config, io_error, failed)
    /\ stderr' = IF result'.ok THEN stderr
                 ELSE Append(stderr, diagnostic(DirPath, result'.error, 1))
    /\ raw' = result'.entries
    /\ phase' = "collected"
    /\ UNCHANGED <<config, entries, fs, driverVars, cacheVars,
                   layoutVars>>

NextCollect == CollectStep

SpecCollect == InitCollect /\ [][NextCollect]_vars

\* The names of a sequence of entries.
NamesOf(es) == [i \in DOMAIN es |-> es[i].name]

\* C5: of the names of the directory that begin with '.', none is returned
\* with neither option set, every one ("." and ".." included) with all set,
\* every one but "." and ".." with almost-all set and all unset; the other
\* names are returned under every setting.  (Names whose metadata lookup
\* failed are left out of the statement.)
C5_DotFilter ==
    (phase = "collected" /\ result.ok) =>
        \A n \in RangeOf(fs[DirPath].stream) \ gone :
            LET returned == n \in RangeOf(NamesOf(result.entries))
            IN  IF ~starts_with_dot(n) THEN returned
                ELSE IF config.all THEN returned
                ELSE IF config.almost_all
                     THEN returned <=> (n # Dot /\ n # DotDot)
                     ELSE ~returned

\* C8: when the directory was enumerated, collect_entries returns Ok whatever
\* metadata lookups failed; the result holds exactly the candidates whose
\* lookup succeeded, each once and in candidate order, and nothing is
\* reported.
C8_FailedLookupDropped ==
    (phase = "collected" /\ (result.ok \/ gone # {})) =>
        LET candidates == entry_data(read_dir(fs[DirPath].stream), config)
            returned == NamesOf(result.entries)
        IN  /\ result.ok
            /\ RangeOf(returned) = RangeOf(candidates) \ gone
            /\ \A i, j \in DOMAIN returned : i # j => returned[i] # returned[j]
            /\ \A i, j \in DOMAIN returned : i < j =>
                 \E k, l \in DOMAIN candidates :
                    k < l /\ candidates[k] = returned[i]
                          /\ candidates[l] = returned[j]
            /\ stderr = <<>>

\* A collection in which the lookup of a candidate failed and another
\* candidate survived.
C8_Witness ==
    /\ phase = "collected"
    /\ gone # {}
    /\ result.ok
    /\ result.entries # <<>>
    /\ Len(result.entries) + Cardinality(gone)
         = Len(entry_data(read_dir(fs[DirPath].stream), config))

----------------------------------------------------------------------------
(* The sort pipeline: a collected directory is sorted under a configuration *)

\* Sequences of at most n entries with pairwise different names: the names
\* of one directory are unique.
RECURSIVE Listings(_)
Listings(n) ==
    IF n = 0 THEN {<<>>}
    ELSE LET shorter == Listings(n - 1)
             longest == {t \in shorter : Len(t) = n - 1}
         IN  shorter \cup
             UNION { { Append(s, e) :
                         e \in {x \in Entry :
                                  \A i \in DOMAIN s : s[i].name # x.name} } :
                     s \in longest }

SortConfig ==
    [sort : SortBy, reverse : BOOLEAN, time_field : TimeField]

InitSort ==
    /\ phase = "collected"
    /\ config \in SortConfig
    /\ raw \in Listings(MaxEntries)
    /\ entries = <<>>
    /\ fs = <<>>
    /\ gone = {}
    /\ result = [ok |-> TRUE, error |-> "", entries |-> raw]
    /\ stderr = <<>>
    /\ DriverIdle
    /\ CacheIdle
    /\ LayoutIdle

\* list_directory, lines 275-355: the entries collect_entries returned are
\* sorted in place under the configuration main built.
SortStep ==
    /\ phase = "collected"
    /\ entries' = sort_entries(raw, config)
    /\ phase' = "sorted"
    /\ UNCHANGED <<config, raw, fs, gone, result, stderr, driverVars,
                   cacheVars, layoutVars>>

NextSort == SortStep

SpecSort == InitSort /\ [][NextSort]_vars

----------------------------------------------------------------------------
(* Properties of the sort step *)

ReverseSeq(s) == [i \in 1..Len(s) |-> s[Len(s) + 1 - i]]

SameEntries(s, t) ==
    /\ Len(s) = Len(t)
    /\ {s[i] : i \in DOMAIN s} = {t[i] : i \in DOMAIN t}

\* The primary key of the Time and Size modes.
PrimaryKey(e, cfg) ==
    IF cfg.sort = "Time" THEN get_time_field(e.metadata, cfg.time_field)
    ELSE e.metadata.len

\* a strictly before b in the composite order of the Time and Size modes:
\* larger primary key first, equal keys by lowercased name ascending.
CompositeBefore(a, b, cfg) ==
    \/ PrimaryKey(a, cfg) > PrimaryKey(b, cfg)
    \/ /\ PrimaryKey(a, cfg) = PrimaryKey(b, cfg)
       /\ cmp_str(to_lowercase(a.name), to_lowercase(b.name)) = "Less"

Orders(s) ==
    { [i \in DOMAIN s |-> s[p[i]]] :
        p \in {q \in [DOMAIN s -> DOMAIN s] :
                  \A i, j \in DOMAIN s : i # j => q[i] # q[j]} }

\* C2: in Name, Time and Size mode the comparator is a total order on the
\* entries of a listing (antisymmetric, transitive, never Equal for two
\* different names), so the listing is the same for every collector order.
C2_TotalOrder ==
    (phase = "sorted" /\ config.sort # "Unsorted") =>
        /\ \A i, j \in DOMAIN raw :
              compare(raw[i], raw[j], config)
                  = reverse(compare(raw[j], raw[i], config))
        /\ \A i, j, k \in DOMAIN raw :
              (compare(raw[i], raw[j], config) = "Less"
                  /\ compare(raw[j], raw[k], config) = "Less")
              => compare(raw[i], raw[k], config) = "Less"
        /\ \A i, j \in DOMAIN raw :
              i # j => compare(raw[i], raw[j], config) # "Equal"
        /\ \A s \in Orders(raw) : sort_entries(s, config) = entries

\* C3: the parallel and the sequential sort path order the same input
\* identically, under every sort mode and reverse setting; the listing is
\* that order whichever path the entry count selected.
C3_PathsAgree ==
    (phase = "sorted" /\ config.sort # "Unsorted") =>
        /\ par_sort_by(raw, config) = sort_by(raw, config)
        /\ entries = sort_by(raw, config)

\* A listing above the threshold, sorted by the parallel path, that holds
\* two entries the comparator calls Equal and had to be rearranged.
C3_Witness ==
    /\ phase = "sorted"
    /\ config.sort # "Unsorted"
    /\ Len(raw) > PARALLEL_SORT_THRESHOLD
    /\ entries # raw
    /\ \E i, j \in DOMAIN raw :
          i # j /\ compare(raw[i], raw[j], config) = "Equal"

\* C4: in Name mode the listing is ascending by lowercased name, and the
\* listing with reverse set is the exact reverse of the listing without.
C4_NameOrder ==
    (phase = "sorted" /\ config.sort = "Name") =>
        /\ SameEntries(entries, raw)
        /\ ~config.reverse =>
              \A i, j \in DOMAIN entries : i < j =>
                  cmp_str(to_lowercase(entries[i].name),
                          to_lowercase(entries[j].name)) # "Greater"
        /\ config.reverse =>
              entries = ReverseSeq(
                  sort_entries(raw, [config EXCEPT !.reverse = FALSE]))

----------------------------------------------------------------------------
(* The traversal driver: main's loop over the paths and the recursion of   *)
(* list_directory                                                          *)

\* Largest number of requested paths.
MaxPaths == 2

\* Largest number of system calls that fail during one run.
MaxFaults == 1

\* The tree explored, with the order in which each directory is enumerated:
\*   r/{z/, a, .g/, s/{t/{l -> r}, b}}   and the file f
\* "m" is a path that does not exist.
NmR == <<114>>
NmA == <<97>>
NmS == <<115>>
NmB == <<98>>
NmT == <<116>>
NmL == <<108>>
NmG == <<46, 103>>
NmZ == <<122>>
NmF == <<102>>
NmM == <<109>>

Tree ==
    (<<NmR>> :> Node("dir", 4, 3, <<Dot, DotDot, NmZ, NmA, NmG, NmS>>, None))
 @@ (<<NmR, NmA>> :> Node("file", 1, 2, <<>>, None))
 @@ (<<NmR, NmS>> :> Node("dir", 4, 1, <<Dot, NmT, DotDot, NmB>>, None))
 @@ (<<NmR, NmS, NmB>> :> Node("file", 0, 1, <<>>, None))
 @@ (<<NmR, NmS, NmT>> :> Node("dir", 4, 2, <<Dot, DotDot, NmL>>, None))
 @@ (<<NmR, NmS, NmT, NmL>> :> Node("symlink", 1, 1, <<>>, <<NmR>>))
 @@ (<<NmR, NmG>> :> Node("dir", 4, 1, <<Dot, DotDot>>, None))
 @@ (<<NmR, NmZ>> :> Node("dir", 4, 2, <<DotDot, Dot>>, None))
 @@ (<<NmF>> :> Node("file", 1, 1, <<>>, None))

TopPaths == { <<NmR>>, <<NmM>>, <<NmF>> }

RECURSIVE PathLists(_)
PathLists(n) ==
    IF n = 0 THEN {<<>>}
    ELSE LET shorter == PathLists(n - 1)
         IN  shorter \cup
             { Append(ps, q) : ps \in {t \in shorter : Len(t) = n - 1},
                               q \in TopPaths }

DriverConfig ==
    [all : BOOLEAN, almost_all : BOOLEAN, recursive : BOOLEAN,
     sort : {"Name"}, reverse : BOOLEAN, time_field : {"Modify"}]

\* Lines written to stdout.  The listing of a directory is one event holding
\* the names in the order the layout prints them.
\* The blank line written before the header of path.
BlankLine(path, arg) ==
    [t |-> "blank", path |-> path, names |-> <<>>, arg |-> arg]

HeaderLine(path, arg) ==
    [t |-> "header", path |-> path, names |-> <<>>, arg |-> arg]

ListingLines(path, es, arg) ==
    [t |-> "listing", path |-> path, names |-> NamesOf(es), arg |-> arg]

\* A system call that failed in iteration arg: the first call of
\* collect_entries on path itself (call "path"), or the metadata lookup of
\* the enumerated candidate path (call "entry").
Fault(arg, path, call) == [arg |-> arg, path |-> path, call |-> call]

\* The failures that may hit collect_entries(path) in iteration arg: the
\* call on path itself fails (io_error), or the lookups of some enumerated
\* candidates fail (failed); at most MaxFaults calls fail in one run.
FaultChoices(path) ==
    LET left == MaxFaults - Cardinality(gone)
        none == [io_error |-> "", failed |-> {}]
    IN  IF path \notin DOMAIN fs \/ left = 0 THEN {none}
        ELSE IF fs[path].kind # "dir"
        THEN {none, [io_error |-> "PermissionDenied", failed |-> {}]}
        ELSE {[io_error |-> "PermissionDenied", failed |-> {}]} \cup
             { [io_error |-> "", failed |-> F] :
                 F \in {G \in SUBSET RangeOf(
                            entry_data(read_dir(fs[path].stream), config)) :
                          Cardinality(G) <= left} }

FaultsOf(path, arg, choice) ==
    (IF choice.io_error # "" THEN {Fault(arg, path, "path")} ELSE {})
    \cup {Fault(arg, Append(path, n), "entry") : n \in choice.failed}

\* list_directory entered from a caller that handles its Err by printing the
\* diagnostic, with the frames of the recursion loop walking the collector's
\* order instead of the sorted entries.
list_directory_unsorted_walk(path, arg, choice, stk, out) ==
    LET res == collect_entries(path, config, choice.io_error, choice.failed)
        sorted == sort_entries(res.entries, config)
    IN  IF ~res.ok
        THEN [stack |-> stk, stdout |-> out,
              stderr |-> Append(stderr, diagnostic(path, res.error, arg))]
        ELSE [stack |-> Append(stk, [path |-> path, entries |-> res.entries,
                                     idx |-> 1, arg |-> arg]),
              stdout |-> Append(out, ListingLines(path, sorted, arg)),
              stderr |-> stderr]

\* list_directory with an Err of a nested call propagated to the outermost
\* caller (as with the ? operator in the recursion loop): the active calls
\* are abandoned.
list_directory_propagate(path, arg, choice, stk, out) ==
    LET res == collect_entries(path, config, choice.io_error, choice.failed)
        sorted == sort_entries(res.entries, config)
    IN  IF ~res.ok
        THEN [stack |-> <<>>, stdout |-> out,
              stderr |-> Append(stderr,
                  diagnostic(IF stk = <<>> THEN path ELSE stk[1].path,
                             res.error, arg))]
        ELSE [stack |-> Append(stk, [path |-> path, entries |-> sorted,
                                     idx |-> 1, arg |-> arg]),
              stdout |-> Append(out, ListingLines(path, sorted, arg)),
              stderr |-> stderr]

\* list_directory(path), lines 272-376, together with the handling of its
\* result by the caller (main, lines 266-268; the recursion loop, lines
\* 384-386): collect, sort and render; on Err the caller prints the
\* diagnostic and goes on.  stk holds the calls that stay active, out what
\* was written before the call.
list_directory(path, arg, choice, stk, out) ==
    LET res == collect_entries(path, config, choice.io_error, choice.failed)
        sorted == sort_entries(res.entries, config)
    IN  IF ~res.ok
        THEN [stack |-> stk, stdout |-> out,
              stderr |-> Append(stderr, diagnostic(path, res.error, arg))]
        ELSE [stack |-> Append(stk, [path |-> path, entries |-> sorted,
                                     idx |-> 1, arg |-> arg]),
              stdout |-> Append(out, ListingLines(path, sorted, arg)),
              stderr |-> stderr]

Init ==
    /\ phase = "running"
    /\ config \in DriverConfig
    /\ paths \in PathLists(MaxPaths) \ {<<>>}
    /\ pi = 1
    /\ stack = <<>>
    /\ stdout = <<>>
    /\ stderr = <<>>
    /\ fs = Tree
    /\ gone = {}
    /\ raw = <<>>
    /\ entries = <<>>
    /\ result = Ok(<<>>)
    /\ CacheIdle
    /\ LayoutIdle

\* One iteration of main's loop, lines 257-269, up to the point where
\* list_directory has rendered the path's own listing or has failed.  The
\* flag first is false exactly from the second iteration on.
MainStep ==
    /\ phase = "running"
    /\ stack = <<>>
    /\ pi <= Len(paths)
    /\ \E choice \in FaultChoices(paths[pi]) :
         LET path == paths[pi]
             pre == IF Len(paths) > 1
                    THEN (IF pi > 1 THEN <<BlankLine(path, pi)>> ELSE <<>>)
                         \o <<HeaderLine(path, pi)>>
                    ELSE <<>>
             r == list_directory(path, pi, choice, <<>>, stdout \o pre)
         IN  /\ stack' = r.stack
             /\ stdout' = r.stdout
             /\ stderr' = r.stderr
             /\ gone' = gone \cup FaultsOf(path, pi, choice)
    /\ pi' = pi + 1
    /\ UNCHANGED <<phase, config, raw, entries, fs, result, paths, cacheVars,
                   layoutVars>>

\* One iteration of the recursion loop, lines 379-389, of the innermost
\* active call: an entry that is a directory gets a blank line, its header
\* and its own list_directory call; any other entry is passed over.
RecurseStep ==
    /\ phase = "running"
    /\ stack # <<>>
    /\ config.recursive
    /\ LET top == stack[Len(stack)]
       IN  /\ top.idx <= Len(top.entries)
           /\ LET entry == top.entries[top.idx]
                  stk == [stack EXCEPT ![Len(stack)].idx = top.idx + 1]
              IN  IF entry.metadata.kind = "dir"
                  THEN \E choice \in FaultChoices(entry.path) :
                         LET r == list_directory(entry.path, top.arg, choice,
                                    stk,
                                    stdout \o <<BlankLine(entry.path, top.arg),
                                        HeaderLine(entry.path, top.arg)>>)
                         IN  /\ stack' = r.stack
                             /\ stdout' = r.stdout
                             /\ stderr' = r.stderr
                             /\ gone' = gone \cup
                                   FaultsOf(entry.path, top.arg, choice)
                  ELSE /\ stack' = stk
                       /\ UNCHANGED <<stdout, stderr, gone>>
    /\ UNCHANGED <<phase, config, raw, entries, fs, result, paths, pi,
                   cacheVars, layoutVars>>

\* The innermost call returns Ok(()), line 391: recursion is off or its loop
\* is through.
ReturnStep ==
    /\ phase = "running"
    /\ stack # <<>>
    /\ LET top == stack[Len(stack)]
       IN  ~config.recursive \/ top.idx > Len(top.entries)
    /\ stack' = SubSeq(stack, 1, Len(stack) - 1)
    /\ UNCHANGED <<phase, config, raw, entries, fs, gone, result, stderr,
                   paths, pi, stdout, cacheVars,
                   layoutVars>>

Next == MainStep \/ RecurseStep \/ ReturnStep

Spec == Init /\ [][Next]_vars

\* main has returned.
Done == phase = "running" /\ stack = <<>> /\ pi > Len(paths)

----------------------------------------------------------------------------
(* Properties of the traversal *)

IsPrefix(p, q) == Len(p) <= Len(q) /\ SubSeq(q, 1, Len(p)) = p

Parent(p) == SubSeq(p, 1, Len(p) - 1)

\* The position of name n in the sequence of names ns (0 when absent).
PositionOf(n, ns) ==
    IF \E i \in DOMAIN ns : ns[i] = n
    THEN CHOOSE i \in DOMAIN ns : ns[i] = n
    ELSE 0

\* Line m of stdout belongs to the section of directory p in iteration k.
InSection(m, p, k) == stdout[m].arg = k /\ IsPrefix(p, stdout[m].path)

\* Indices of the events of kind t written for path in iteration k.
EventsOf(t, path, k) ==
    {i \in DOMAIN stdout :
        stdout[i].t = t /\ stdout[i].path = path /\ stdout[i].arg = k}

DiagnosticsOf(path, k) ==
    {i \in DOMAIN stderr : stderr[i].path = path /\ stderr[i].arg = k}

\* A header written by the recursion loop (main's headers name a requested
\* path).
NestedHeader(i) ==
    stdout[i].t = "header" /\ stdout[i].path # paths[stdout[i].arg]

\* C6 (as amended): a directory's own listing comes first; each nested
\* header follows a blank line and the finished listing of its parent, which
\* shows it; the section of a directory is one unbroken run of lines;
\* sibling sections come in the order of the parent's listing and each is
\* complete before the next header; a listing directly follows its header;
\* no directory gets two headers or two listings; and when main has
\* returned with recursion on, every directory shown in a listing has its
\* header and, unless reading it failed, its listing.
C6_RecursiveSections ==
    LET headers == {i \in DOMAIN stdout : NestedHeader(i)}
        listings == {i \in DOMAIN stdout : stdout[i].t = "listing"}
    IN
    /\ \A i \in headers :
         LET p == stdout[i].path
             k == stdout[i].arg
         IN  /\ config.recursive
             /\ i > 1
             /\ stdout[i - 1] = BlankLine(p, k)
             /\ \E j \in listings :
                  /\ j < i - 1
                  /\ stdout[j].path = Parent(p) /\ stdout[j].arg = k
                  /\ PositionOf(p[Len(p)], stdout[j].names) > 0
             /\ \A m \in (i + 1)..Len(stdout) :
                  InSection(m, p, k) => InSection(m - 1, p, k)
    /\ \A i \in listings :
         stdout[i].path # paths[stdout[i].arg] =>
             /\ i > 1
             /\ stdout[i - 1] = HeaderLine(stdout[i].path, stdout[i].arg)
    /\ \A i, j \in headers \cup listings :
         (i < j /\ stdout[i].arg = stdout[j].arg /\ stdout[i].t = stdout[j].t)
            => stdout[i].path # stdout[j].path
    /\ \A i, j \in headers :
         (/\ i < j
          /\ stdout[i].arg = stdout[j].arg
          /\ Parent(stdout[i].path) = Parent(stdout[j].path)) =>
             LET c1 == stdout[i].path
                 c2 == stdout[j].path
                 k == stdout[i].arg
                 l == CHOOSE m \in listings :
                        stdout[m].path = Parent(c1) /\ stdout[m].arg = k
             IN  /\ PositionOf(c1[Len(c1)], stdout[l].names)
                      < PositionOf(c2[Len(c2)], stdout[l].names)
                 /\ \A m \in (j - 1)..Len(stdout) : ~InSection(m, c1, k)
    /\ (stack = <<>> /\ pi > Len(paths) /\ config.recursive) =>
         \A j \in listings :
             LET p == stdout[j].path
                 k == stdout[j].arg
             IN  \A x \in DOMAIN stdout[j].names :
                   LET c == Append(p, stdout[j].names[x])
                   IN  (fs[p].kind = "dir" /\ fs[c].kind = "dir") =>
                         /\ Cardinality(EventsOf("header", c, k)) = 1
                         /\ Cardinality(EventsOf("listing", c, k))
                              + Cardinality(DiagnosticsOf(c, k)) = 1

\* The directories of the tree at or below path.
DirectoriesUnder(path) ==
    {d \in DOMAIN fs : IsPrefix(path, d) /\ fs[d].kind = "dir"}

\* C6 as stated: C6_RecursiveSections, and when a recursive run has returned
\* without any failure, every directory of the tree under a requested
\* directory has been listed exactly once.
C6_EveryDirectoryListed ==
    /\ C6_RecursiveSections
    /\ (stack = <<>> /\ pi > Len(paths) /\ config.recursive
            /\ gone = {} /\ stderr = <<>>) =>
         \A k \in DOMAIN paths : \A d \in DirectoriesUnder(paths[k]) :
             Cardinality(EventsOf("listing", d, k)) = 1

\* A finished recursive run over r in which r, r/s, r/s/t and r/z were
\* listed, r/s/t between the headers of r/s and r/z.
C6_Witness ==
    /\ stack = <<>> /\ pi > Len(paths)
    /\ config.recursive
    /\ paths = << <<NmR>> >>
    /\ \E i, j, l \in DOMAIN stdout :
         /\ i < j /\ j < l
         /\ stdout[1].t = "listing" /\ stdout[1].path = <<NmR>>
         /\ stdout[i] = HeaderLine(<<NmR, NmS>>, 1)
         /\ stdout[j].t = "listing" /\ stdout[j].path = <<NmR, NmS, NmT>>
         /\ stdout[l] = HeaderLine(<<NmR, NmZ>>, 1)

\* What list_directory(path) writes in iteration k when no system call
\* fails: its listing, then for each directory among the sorted entries a
\* blank line, the header and the section of that directory.
RECURSIVE SectionOf(_, _), SectionsOfChildren(_, _, _)
SectionOf(path, k) ==
    LET res == collect_entries(path, config, "", {})
        sorted == sort_entries(res.entries, config)
    IN  IF ~res.ok THEN <<>>
        ELSE <<ListingLines(path, sorted, k)>>
             \o (IF config.recursive
                 THEN SectionsOfChildren(sorted, 1, k) ELSE <<>>)

SectionsOfChildren(es, i, k) ==
    IF i > Len(es) THEN <<>>
    ELSE (IF es[i].metadata.kind = "dir"
          THEN <<BlankLine(es[i].path, k), HeaderLine(es[i].path, k)>>
               \o SectionOf(es[i].path, k)
          ELSE <<>>)
         \o SectionsOfChildren(es, i + 1, k)

\* The lines main writes itself before it calls list_directory on paths[k].
MainLines(k) ==
    IF Len(paths) > 1
    THEN (IF k > 1 THEN <<BlankLine(paths[k], k)>> ELSE <<>>)
         \o <<HeaderLine(paths[k], k)>>
    ELSE <<>>

\* The lines of stdout written in iteration k.
OutputOf(k) ==
    LET Mine(e) == e.arg = k
    IN  SelectSeq(stdout, Mine)

\* The lines of stdout of the section of directory c in iteration k.
OutputUnder(c, k) ==
    LET Mine(e) == e.arg = k /\ IsPrefix(c, e.path)
    IN  SelectSeq(stdout, Mine)

\* C7: the paths are processed in argument order.  A path whose collection
\* fails gets exactly one diagnostic naming it and its error, and no
\* listing; every other path gets its listing and no diagnostic; a path in
\* whose iteration nothing failed writes exactly what it writes in a run
\* without failures, whatever failed before it.  In the recursion, a
\* subdirectory whose collection fails gets exactly one diagnostic, and each
\* later sibling directory still gets its header and, when nothing fails
\* below it, its complete section.
C7_FailuresAreLocal ==
    /\ \A i, j \in DOMAIN stdout : i < j => stdout[i].arg <= stdout[j].arg
    /\ \A i, j \in DOMAIN stderr : i < j => stderr[i].arg <= stderr[j].arg
    /\ \A i \in DOMAIN stdout : stdout[i].arg < pi
    /\ \A i \in DOMAIN stderr : stderr[i].arg < pi
    /\ \A i, j \in DOMAIN stderr :
         (i < j /\ stderr[i].arg = stderr[j].arg)
            => stderr[i].path # stderr[j].path
    /\ \A i \in DOMAIN stderr :
         \/ /\ stderr[i].path \notin DOMAIN fs
            /\ stderr[i].error = "NotFound"
         \/ /\ Fault(stderr[i].arg, stderr[i].path, "path") \in gone
            /\ stderr[i].error = "PermissionDenied"
    /\ (stack = <<>> /\ pi > Len(paths)) =>
         \A k \in DOMAIN paths :
            LET failed == \/ paths[k] \notin DOMAIN fs
                          \/ Fault(k, paths[k], "path") \in gone
            IN  /\ failed =>
                     /\ Cardinality(DiagnosticsOf(paths[k], k)) = 1
                     /\ OutputOf(k) = MainLines(k)
                /\ ~failed =>
                     /\ Cardinality(EventsOf("listing", paths[k], k)) = 1
                     /\ DiagnosticsOf(paths[k], k) = {}
                /\ (\A f \in gone : f.arg # k) =>
                     OutputOf(k) = MainLines(k) \o SectionOf(paths[k], k)
    /\ (stack = <<>> /\ pi > Len(paths)) =>
         \A f \in gone : (f.call = "path" /\ f.path # paths[f.arg]) =>
            LET k == f.arg
                l == CHOOSE m \in EventsOf("listing", Parent(f.path), k) : TRUE
                shown == stdout[l].names
            IN  /\ Cardinality(DiagnosticsOf(f.path, k)) = 1
                /\ OutputUnder(f.path, k)
                     = <<BlankLine(f.path, k), HeaderLine(f.path, k)>>
                /\ \A x \in DOMAIN shown :
                     LET c == Append(Parent(f.path), shown[x])
                     IN  (/\ x > PositionOf(f.path[Len(f.path)], shown)
                          /\ fs[c].kind = "dir") =>
                            /\ Cardinality(EventsOf("header", c, k)) = 1
                            /\ (\A g \in gone :
                                   ~(g.arg = k /\ IsPrefix(c, g.path))) =>
                                 OutputUnder(c, k)
                                   = <<BlankLine(c, k), HeaderLine(c, k)>>
                                     \o SectionOf(c, k)

\* A finished recursive run over the paths m, r: m does not exist, reading
\* r/s failed, and the later sibling r/z was listed.
C7_Witness ==
    /\ stack = <<>> /\ pi > Len(paths)
    /\ config.recursive
    /\ paths = << <<NmM>>, <<NmR>> >>
    /\ DiagnosticsOf(<<NmM>>, 1) # {}
    /\ Fault(2, <<NmR, NmS>>, "path") \in gone
    /\ DiagnosticsOf(<<NmR, NmS>>, 2) # {}
    /\ \E i \in EventsOf("header", <<NmR, NmS>>, 2) :
         \E j \in EventsOf("listing", <<NmR, NmZ>>, 2) : i < j

\* The nested listings started in iteration k: the headers the recursion
\* loop has written.
NestedListings(k) ==
    {i \in DOMAIN stdout : stdout[i].arg = k /\ NestedHeader(i)}

\* More than the steps one call of list_directory takes in its own loop.
CallWeight ==
    LET longest == CHOOSE n \in {Len(fs[d].stream) : d \in DOMAIN fs} :
                      \A d \in DOMAIN fs : Len(fs[d].stream) <= n
    IN  longest + 3

RECURSIVE PendingDirectories(_, _)
\* The real directories at or below the directories among the entries of a
\* call from index i on: those the call can still reach.
PendingDirectories(frame, i) ==
    IF i > Len(frame.entries) THEN 0
    ELSE (IF frame.entries[i].metadata.kind = "dir"
          THEN Cardinality(DirectoriesUnder(frame.entries[i].path))
          ELSE 0)
           + PendingDirectories(frame, i + 1)

RECURSIVE StepsLeft(_)
\* A bound on the steps the active calls stk can still take.
StepsLeft(stk) ==
    IF stk = <<>> THEN 0
    ELSE LET frame == Head(stk)
         IN  (Len(frame.entries) - frame.idx + 2)
               + CallWeight * PendingDirectories(frame, frame.idx)
               + StepsLeft(Tail(stk))

\* A bound on the steps the whole run can still take.
Measure ==
    (Len(paths) + 1 - pi)
        * (CallWeight
             * (1 + Cardinality({d \in DOMAIN fs : fs[d].kind = "dir"})) + 1)
      + StepsLeft(stack)

\* C14: the run ends, with recursion on and with a symbolic link to an
\* ancestor directory in the tree: every step lowers a bound on the steps
\* left that is never negative.  The nested listings started under a
\* requested path never outnumber the real directories below it and each is
\* of such a directory (a symbolic link is never entered), and no call is
\* nested deeper than there are directories.
C14_Terminates ==
    /\ [](Measure >= 0)
    /\ [][Measure' < Measure]_vars
    /\ [](\A k \in DOMAIN paths :
            LET below == DirectoriesUnder(paths[k]) \ {paths[k]}
            IN  /\ Cardinality(NestedListings(k)) <= Cardinality(below)
                /\ \A i \in NestedListings(k) : stdout[i].path \in below)
    /\ [](stack # <<>> =>
            Len(stack) <= Cardinality(DirectoriesUnder(stack[1].path)) + 1)

\* A recursive run over the tree has ended after it listed the directory
\* that holds the link to the root of the tree.
C14_Witness ==
    /\ Done
    /\ config.recursive
    /\ paths = << <<NmR>> >>
    /\ fs[<<NmR, NmS, NmT, NmL>>].kind = "symlink"
    /\ fs[<<NmR, NmS, NmT, NmL>>].target = <<NmR>>
    /\ \E i \in DOMAIN stdout :
         /\ stdout[i].t = "listing"
         /\ stdout[i].path = <<NmR, NmS, NmT>>
         /\ stdout[i].names = <<NmL>>



(***************************************************************************)
(* The name cache: get_user_name_cached and get_group_name_cached, called  *)
(* by print_long_format from the pool's workers (pre-warm) and then from   *)
(* the main thread (rendering loop).  USER_CACHE and GROUP_CACHE share no  *)
(* state, run the same code, and no call on one overlaps a call on the     *)
(* other (the pre-warm of the uids is joined before that of the gids, and  *)
(* the rendering loop is sequential), so one map is followed at a time:    *)
(* config.map says which.                                                  *)
(***************************************************************************)

\* Longest listing print_long_format is given.
MaxOwners == 2

\* Largest user or group id.
MaxId == 1

\* Threads of the pool that run the pre-warm closures.
NumWorkers == 2

\* Shards of the DashMap; ids congruent modulo NumShards share a shard.
NumShards == 2

\* Listings printed by one process (the caches outlive each of them).
MaxListings == 2

\* print_long_format, line 584: pre-warm when entries.len() > 100.  The
\* program's constant is 100; it is scaled so that listings on both sides of
\* it are explored.
PREWARM_THRESHOLD == 1

Ids == 0..MaxId
MainThread == 0
Workers == 1..NumWorkers
Threads == {MainThread} \union Workers
NoThread == -1
Shards == 0..(NumShards - 1)
shard_of(id) == id % NumShards

\* A name is either what the database holds for some id or the decimal
\* rendering of the id.
NoName == [form |-> "none", id |-> 0]
pw_name(id) == [form |-> "name", id |-> id]
to_string(id) == [form |-> "decimal", id |-> id]

\* get_user_name / get_group_name: the name the database holds, or the
\* decimal id when it has no entry.  getpwuid and getgrgid answer from a
\* static buffer that calls on other threads overwrite, and the database is
\* outside the program, so a lookup may read the name of any id.
get_name(id) == { pw_name(i) : i \in Ids } \union { to_string(id) }

\* DashMap::entry as a check-then-act sequence that takes no lock.
entry_unlocked(id) == TRUE

\* DashMap::entry: takes the write lock of the key's shard, so it goes on
\* only when no thread holds that lock.
entry(id) == lock[shard_of(id)] = NoThread

Idle == [pc |-> "idle", id |-> 0]

\* The uids (or gids) of the entries of a listing, in listing order.
OwnerLists == UNION { [1..n -> Ids] : n \in 1..MaxOwners }

InitCache ==
    /\ phase = "start"
    /\ config \in [map : {"USER_CACHE", "GROUP_CACHE"}]
    /\ long_calls = 0
    /\ owners = <<>>
    /\ todo = {}
    /\ rpos = 1
    /\ cache = [id \in Ids |-> NoName]
    /\ lock = [s \in Shards |-> NoThread]
    /\ thread = [t \in Threads |-> Idle]
    /\ lookups = [id \in Ids |-> 0]
    /\ answers = {}
    /\ raw = <<>>
    /\ entries = <<>>
    /\ fs = <<>>
    /\ gone = {}
    /\ result = Ok(<<>>)
    /\ stderr = <<>>
    /\ DriverIdle
    /\ LayoutIdle

cacheFrame ==
    <<config, raw, entries, fs, gone, result, stderr, driverVars, layoutVars>>

\* One call of print_long_format begins (lines 582-590): pre-warm when the
\* listing is long enough, else go on to the rendering loop.
PrintLongFormat ==
    /\ phase \in {"start", "printed"}
    /\ long_calls < MaxListings
    /\ long_calls' = long_calls + 1
    /\ \E os \in OwnerLists :
         /\ owners' = os
         /\ IF Len(os) > PREWARM_THRESHOLD
            THEN phase' = "prewarm" /\ todo' = DOMAIN os
            ELSE phase' = "render" /\ todo' = {}
    /\ rpos' = 1
    /\ UNCHANGED <<cache, lock, thread, lookups, answers, cacheFrame>>

\* A thread calls get_user_name_cached (get_group_name_cached): a worker
\* takes any element of the parallel iterator, the main thread the next
\* entry of the rendering loop.
Call(t) ==
    /\ thread[t].pc = "idle"
    /\ \/ /\ phase = "prewarm"
          /\ t \in Workers
          /\ \E i \in todo :
               /\ todo' = todo \ {i}
               /\ thread' = [thread EXCEPT ![t] =
                                [pc |-> "entry", id |-> owners[i]]]
          /\ UNCHANGED rpos
       \/ /\ phase = "render"
          /\ t = MainThread
          /\ rpos <= Len(owners)
          /\ thread' = [thread EXCEPT ![t] =
                           [pc |-> "entry", id |-> owners[rpos]]]
          /\ rpos' = rpos + 1
          /\ UNCHANGED todo
    /\ UNCHANGED <<phase, long_calls, owners, cache, lock, lookups, answers,
                   cacheFrame>>

\* .entry(id): the thread gets the entry of its key, Occupied or Vacant as
\* the map stands at that moment.
TakeEntry(t) ==
    /\ thread[t].pc = "entry"
    /\ entry(thread[t].id)
    /\ lock' = [lock EXCEPT ![shard_of(thread[t].id)] = t]
    /\ thread' = [thread EXCEPT ![t].pc =
                     IF cache[thread[t].id] = NoName THEN "Vacant"
                                                     ELSE "Occupied"]
    /\ UNCHANGED <<phase, long_calls, owners, cache, todo, rpos, lookups,
                   answers, cacheFrame>>

\* .or_insert_with(|| get_user_name(id)) on a vacant entry: the closure runs
\* the system lookup, its name is inserted, cloned and returned, and the
\* entry is dropped, which releases the shard.
Insert(t) ==
    /\ thread[t].pc = "Vacant"
    /\ \E name \in get_name(thread[t].id) :
         /\ cache' = [cache EXCEPT ![thread[t].id] = name]
         /\ answers' = answers \union {[id |-> thread[t].id, name |-> name]}
    /\ lookups' = [lookups EXCEPT ![thread[t].id] = @ + 1]
    /\ lock' = [lock EXCEPT ![shard_of(thread[t].id)] =
                  IF @ = t THEN NoThread ELSE @]
    /\ thread' = [thread EXCEPT ![t] = Idle]
    /\ UNCHANGED <<phase, long_calls, owners, todo, rpos, cacheFrame>>

\* .or_insert_with on an occupied entry: the cached name is cloned and
\* returned without a lookup; the entry is dropped.
Hit(t) ==
    /\ thread[t].pc = "Occupied"
    /\ answers' = answers \union
                    {[id |-> thread[t].id, name |-> cache[thread[t].id]]}
    /\ lock' = [lock EXCEPT ![shard_of(thread[t].id)] =
                  IF @ = t THEN NoThread ELSE @]
    /\ thread' = [thread EXCEPT ![t] = Idle]
    /\ UNCHANGED <<phase, long_calls, owners, cache, todo, rpos, lookups,
                   cacheFrame>>

\* The parallel for_each returns when every closure has run (lines 588-589);
\* the rendering loop ends after its last entry.
Join ==
    /\ \A t \in Threads : thread[t].pc = "idle"
    /\ \/ /\ phase = "prewarm" /\ todo = {}
          /\ phase' = "render"
       \/ /\ phase = "render" /\ rpos > Len(owners)
          /\ phase' = "printed"
    /\ UNCHANGED <<long_calls, owners, cache, lock, todo, rpos, thread,
                   lookups, answers, cacheFrame>>

NextCache ==
    \/ PrintLongFormat
    \/ \E t \in Threads : Call(t)
    \/ \E t \in Threads : TakeEntry(t)
    \/ \E t \in Threads : Insert(t)
    \/ \E t \in Threads : Hit(t)
    \/ Join

SpecCache == InitCache /\ [][NextCache]_vars

\* C9: under every interleaving of the resolve calls, all calls for one id
\* return the same string, a name once cached is never replaced or removed,
\* and no system lookup for an id is made once a resolve call for that id
\* has completed (so each id is looked up at most once).
C9_CacheStable ==
    /\ [](\A a, b \in answers : a.id = b.id => a.name = b.name)
    /\ [](\A id \in DOMAIN lookups : lookups[id] <= 1)
    /\ [][\A id \in DOMAIN cache :
            /\ cache[id] # NoName => cache'[id] = cache[id]
            /\ lookups'[id] > lookups[id] =>
                 (cache[id] = NoName /\ \A a \in answers : a.id # id)]_vars

\* Two workers resolve the same id at once, the second waiting at the entry
\* while the first holds it vacant, in a process that has already printed a
\* listing.
C9_Witness ==
    /\ phase = "prewarm"
    /\ long_calls = 2
    /\ \E t, u \in Workers :
         /\ t # u
         /\ thread[t].id = thread[u].id
         /\ thread[t].pc = "Vacant"
         /\ thread[u].pc = "entry"


(***************************************************************************)
(* The column layout: print_multi_column_down.  A line of output is the    *)
(* sequence of its characters, so that a cell is found again by its place  *)
(* in the line.                                                            *)
(***************************************************************************)

\* Longest listing laid out.
MaxNames == 5

\* Longest decorated name.
MaxNameLen == 3

\* Widest terminal the ioctl reports.
MaxWidth == 12

\* print_multi_column_down, line 506: the width used when terminal_size()
\* answers None.
DEFAULT_WIDTH == 80

Space == 32

\* Option<usize>.
Some(v) == [some |-> TRUE, value |-> v]
NoSize == [some |-> FALSE, value |-> 0]
unwrap_or(opt, default) == IF opt.some THEN opt.value ELSE default

\* terminal_size: the ws_col of the ioctl, or None when it fails.
terminal_size == {NoSize} \union { Some(v) : v \in 0..MaxWidth }

\* The decorated name of the entry with (0-based) index i and length len:
\* len times the i-th lower-case letter, so that no two entries look alike.
DecoratedName(i, len) == [j \in 1..len |-> 97 + i]

NameLists ==
    UNION { { [i \in 1..n |-> DecoratedName(i - 1, lens[i])] :
                lens \in [1..n -> 1..MaxNameLen] } : n \in 0..MaxNames }

RECURSIVE max_len(_)
\* names.iter().map(|n| n.len()).max().unwrap_or(0)
max_len(ns) ==
    IF ns = <<>> THEN 0
    ELSE LET rest == max_len(Tail(ns))
         IN  IF Len(Head(ns)) > rest THEN Len(Head(ns)) ELSE rest

\* format "{:<width$}": name, then spaces up to width; never cut.
pad(name, width) ==
    name \o [j \in 1..(IF width > Len(name) THEN width - Len(name) ELSE 0)
               |-> Space]

\* The index of the cell as if the grid were filled row by row.
idx_across(row, col, num_rows, num_cols) == row * num_cols + col

\* let idx = col * num_rows + row
idx(row, col, num_rows, num_cols) == col * num_rows + row

\* names[idx] of a 0-based Vec.
at(ns, i) == ns[i + 1]

RECURSIVE print_row(_, _, _, _, _, _)
\* The inner loop from column col on: the characters written to the line and
\* the indices read, a cell being written only when idx < entries.len().
print_row(ns, row, col, num_rows, num_cols, col_width) ==
    IF col >= num_cols THEN [line |-> <<>>, reads |-> <<>>]
    ELSE LET i == idx(row, col, num_rows, num_cols)
             rest == print_row(ns, row, col + 1, num_rows, num_cols, col_width)
         IN  IF i < Len(ns)
             THEN [line |-> pad(at(ns, i), col_width) \o rest.line,
                   reads |-> <<i>> \o rest.reads]
             ELSE rest

RECURSIVE print_rows(_, _, _, _, _)
\* The outer loop from row on: one line per row.
print_rows(ns, row, num_rows, num_cols, col_width) ==
    IF row >= num_rows THEN [lines |-> <<>>, reads |-> <<>>]
    ELSE LET this == print_row(ns, row, 0, num_rows, num_cols, col_width)
             rest == print_rows(ns, row + 1, num_rows, num_cols, col_width)
         IN  [lines |-> <<this.line>> \o rest.lines,
              reads |-> this.reads \o rest.reads]

\* print_multi_column_down on the decorated names ns with terminal_size()
\* answering size.
print_multi_column_down(ns, size) ==
    IF ns = <<>> THEN [lines |-> <<>>, reads |-> <<>>]
    ELSE LET col_width == max_len(ns) + 2
             term_width == unwrap_or(size, DEFAULT_WIDTH)
             num_cols == IF term_width \div col_width > 1
                         THEN term_width \div col_width ELSE 1
             num_rows == (Len(ns) + num_cols - 1) \div num_cols
         IN  print_rows(ns, 0, num_rows, num_cols, col_width)

InitLayout ==
    /\ phase = "layout"
    /\ input = <<>>
    /\ ret = <<>>
    /\ now = <<>>
    /\ names \in NameLists
    /\ winsize \in terminal_size
    /\ reads = <<>>
    /\ stdout = <<>>
    /\ paths = <<>>
    /\ pi = 1
    /\ stack = <<>>
    /\ config = [format |-> "MultiColumnDown"]
    /\ raw = <<>>
    /\ entries = <<>>
    /\ fs = <<>>
    /\ gone = {}
    /\ result = Ok(<<>>)
    /\ stderr = <<>>
    /\ CacheIdle

\* list_directory, line 373: the listing is printed in columns.
PrintColumns ==
    /\ phase = "layout"
    /\ LET out == print_multi_column_down(names, winsize)
       IN  /\ stdout' = out.lines
           /\ reads' = out.reads
    /\ phase' = "printed"
    /\ UNCHANGED <<config, raw, entries, fs, gone, result, stderr, paths, pi,
                   stack, cacheVars, names, winsize, input, ret, now>>

NextLayout == PrintColumns

SpecLayout == InitLayout /\ [][NextLayout]_vars

\* The grid the layout is claimed to have: the width of a column, the
\* number of columns and the number of rows.
Grid ==
    LET width == max_len(names) + 2
        q == unwrap_or(winsize, DEFAULT_WIDTH) \div width
        cols == IF q >= 1 THEN q ELSE 1
    IN  [width |-> width, cols |-> cols,
         rows |-> CHOOSE r \in 1..Len(names) :
                     /\ r * cols >= Len(names)
                     /\ (r - 1) * cols < Len(names)]

\* What stands in line row at the place of column col (both 0-based) of a
\* grid with columns of the given width: the characters of that cell without
\* the padding, <<>> where the line has ended before the cell.
Cell(row, col, width) ==
    LET line == stdout[row + 1]
        lo == col * width + 1
        hi == IF (col + 1) * width < Len(line)
              THEN (col + 1) * width ELSE Len(line)
        cell == IF lo > hi THEN <<>> ELSE SubSeq(line, lo, hi)
    IN  SelectSeq(cell, LAMBDA ch : ch # Space)

\* The cells read down each column, the columns taken left to right, empty
\* places left out.
ColumnsDown(g) ==
    LET cells == [k \in 1..(g.rows * g.cols) |->
                    Cell((k - 1) % g.rows, (k - 1) \div g.rows, g.width)]
    IN  SelectSeq(cells, LAMBDA c : c # <<>>)

\* C10: a non-empty listing of n names is printed in ceil(n / num_cols)
\* lines, num_cols = max(1, term_width / col_width), col_width = longest
\* name + 2; the cell at (row, col) shows the name with index
\* col * num_rows + row and nothing when that index is n or more; every name
\* is printed exactly once; names is never read at n or beyond; and the
\* columns read top to bottom, left to right, give the names in their
\* order.  With 5 names in 2 columns, column 0 holds the first 3 and column
\* 1 the other 2.
C10_ColumnMajor ==
    (phase = "printed" /\ names # <<>>) =>
        LET n == Len(names)
            g == Grid
            w == g.width
            down == ColumnsDown(g)
        IN  /\ Len(stdout) = g.rows
            /\ \A row \in 0..(g.rows - 1) : \A col \in 0..(g.cols - 1) :
                 LET i == col * g.rows + row
                 IN  /\ i < n => Cell(row, col, w) = names[i + 1]
                     /\ i >= n => Cell(row, col, w) = <<>>
            /\ \A row \in 0..(g.rows - 1) :
                 Len(stdout[row + 1]) <= g.cols * w
            /\ \A i \in 1..n :
                 Cardinality({k \in DOMAIN down : down[k] = names[i]}) = 1
            /\ Len(reads) = n
            /\ \A k \in DOMAIN reads : reads[k] \in 0..(n - 1)
            /\ down = names
            /\ (n = 5 /\ g.cols = 2) =>
                 /\ <<Cell(0, 0, w), Cell(1, 0, w), Cell(2, 0, w)>>
                      = SubSeq(names, 1, 3)
                 /\ <<Cell(0, 1, w), Cell(1, 1, w)>> = SubSeq(names, 4, 5)
                 /\ Cell(2, 1, w) = <<>>

\* Five names of differing lengths have been printed in two columns.
C10_Witness ==
    /\ phase = "printed"
    /\ Len(names) = 5
    /\ Grid.cols = 2
    /\ Len(stdout) = 3
    /\ \E i, j \in DOMAIN names : Len(names[i]) # Len(names[j])


(***************************************************************************)
(* Sizes and their rendering: format_size.  A u64 is kept as its base-1024 *)
(* digits, least significant first and without leading zeros, so that the  *)
(* sizes of every unit are within reach and a division by 1024.0 is a      *)
(* shift; a String is the sequence of its characters.                      *)
(***************************************************************************)

Base == 1024

\* Base-1024 digits of a u64: 64 bits, 10 bits a digit.
U64Limbs == 7

\* The digits 0..MaxDigit are tried in the two highest places of a size.
MaxDigit == 10

\* Digits of the two highest places: the small ones, and those at which the
\* first decimal and the rounding change.
HighDigits == (0..MaxDigit) \union {51, 52, 511, 512, Base - 1}

\* Digits of the lower places.
LowDigits == {0, 1, 512, Base - 1}

\* The sizes tried with up to limbs digits: the lowest place, the places
\* above it (all alike), then the two highest; the highest is not 0 and 2^64
\* is not reached.
U64(limbs) ==
    { <<h>> : h \in HighDigits } \union
    UNION { { [i \in 1..(n - 2) |-> IF i = 1 THEN d1 ELSE d2] \o <<h1, h2>> :
                d1 \in LowDigits, d2 \in LowDigits,
                h1 \in HighDigits,
                h2 \in { h \in HighDigits :
                           h # 0 /\ (n = U64Limbs => h < 16) } }
            : n \in 2..limbs }

IsZero(size) == \A i \in DOMAIN size : size[i] = 0

\* Drops the leading zeros (the highest digits) of a digit sequence.
RECURSIVE Normal(_)
Normal(ds) ==
    IF Len(ds) > 1 /\ ds[Len(ds)] = 0
    THEN Normal(SubSeq(ds, 1, Len(ds) - 1))
    ELSE ds

\* Long division of the digits by d, from the highest digit down: the
\* quotient (same length) and the remainder.
RECURSIVE DivMod(_, _)
DivMod(ds, d) ==
    IF ds = <<>> THEN [quot |-> <<>>, rem |-> 0]
    ELSE LET high == DivMod(Tail(ds), d)
             cur == high.rem * Base + Head(ds)
         IN  [quot |-> <<cur \div d>> \o high.quot, rem |-> cur % d]

\* Long multiplication of the digits by m, from the lowest digit up: the
\* product digits (same length) and the carry out of the highest.
RECURSIVE MulCarry(_, _, _)
MulCarry(ds, m, carry) ==
    IF ds = <<>> THEN [digits |-> <<>>, carry |-> carry]
    ELSE LET cur == Head(ds) * m + carry
             rest == MulCarry(Tail(ds), m, cur \div Base)
         IN  [digits |-> <<cur % Base>> \o rest.digits, carry |-> rest.carry]

\* u64::to_string: the decimal digits, most significant first.
RECURSIVE u64_digits(_)
u64_digits(size) ==
    IF IsZero(size) THEN <<>>
    ELSE LET qr == DivMod(size, 10)
         IN  u64_digits(Normal(qr.quot)) \o <<48 + qr.rem>>

u64_to_string(size) == IF IsZero(size) THEN <<48>> ELSE u64_digits(size)

\* to_string of a number that fits a machine word of the checker.
RECURSIVE int_to_string(_)
int_to_string(n) ==
    IF n < 10 THEN <<48 + n>>
    ELSE int_to_string(n \div 10) \o <<48 + (n % 10)>>

\* const UNITS: B K M G T P
UNITS == <<66, 75, 77, 71, 84, 80>>

\* The fraction 0.d1 d2 .. (digits lowest first) against one half:
\* -1 below, 0 equal, 1 above.
cmp_half(frac) ==
    IF frac = <<>> THEN -1
    ELSE LET top == frac[Len(frac)]
         IN  IF top > Base \div 2 THEN 1
             ELSE IF top < Base \div 2 THEN -1
             ELSE IF \A i \in 1..(Len(frac) - 1) : frac[i] = 0 THEN 0
             ELSE 1

\* Rounding to the nearest, a tie going to the even neighbour, as the
\* formatting of an f64 with a precision does.
round_up(last, frac) ==
    \/ cmp_half(frac) = 1
    \/ cmp_half(frac) = 0 /\ last % 2 = 1

\* The value of the digits ds, which is known to fit a machine word.
RECURSIVE IntOf(_)
IntOf(ds) == IF ds = <<>> THEN 0 ELSE Head(ds) + Base * IntOf(Tail(ds))

RECURSIVE BitLen(_)
\* Number of bits of n.
BitLen(n) == IF n = 0 THEN 0 ELSE 1 + BitLen(n \div 2)

RECURSIVE Pow2(_)
Pow2(n) == IF n = 0 THEN 1 ELSE 2 * Pow2(n - 1)

RECURSIVE AddCarry(_, _)
\* The digits plus a carry into the lowest place.
AddCarry(ds, carry) ==
    IF carry = 0 THEN ds
    ELSE IF ds = <<>> THEN <<carry>>
    ELSE LET cur == Head(ds) + carry
         IN  <<cur % Base>> \o AddCarry(Tail(ds), cur \div Base)

\* size as f64: the nearest value with 53 significant bits, a tie going to
\* the even one.  At most 11 bits are dropped, all within the two lowest
\* digits.
as_f64(size) ==
    LET bits == 10 * (Len(size) - 1) + BitLen(size[Len(size)])
        drop == bits - 53
    IN  IF drop <= 0 THEN size
        ELSE LET q == Pow2(drop)
                 low == size[1] + Base * size[2]
                 rem == low % q
                 up == \/ 2 * rem > q
                       \/ 2 * rem = q /\ (low \div q) % 2 = 1
                 kept == low - rem + (IF up THEN q ELSE 0)
             IN  <<kept % Base, (kept \div Base) % Base>>
                   \o AddCarry(SubSeq(size, 3, Len(size)),
                               kept \div (Base * Base))

\* format_size with {:.0} in both branches and no rounding.
format_size_no_decimals(size, human_readable) ==
    IF ~human_readable THEN u64_to_string(size)
    ELSE IF IsZero(size) THEN <<48, 66>>
    ELSE LET size_f == as_f64(size)
             unit_idx == IF Len(size_f) - 1 < Len(UNITS) - 1
                         THEN Len(size_f) - 1 ELSE Len(UNITS) - 1
             whole == IntOf(SubSeq(size_f, unit_idx + 1, Len(size_f)))
         IN  int_to_string(whole) \o <<UNITS[unit_idx + 1]>>

\* format_size.  After the loop size_f is size as f64 / 1024^unit_idx: its
\* integer part is the value of the digits from unit_idx up, its fraction
\* the digits below.
format_size(size, human_readable) ==
    IF ~human_readable THEN u64_to_string(size)
    ELSE IF IsZero(size) THEN <<48, 66>>
    ELSE LET size_f == as_f64(size)
             unit_idx == IF Len(size_f) - 1 < Len(UNITS) - 1
                         THEN Len(size_f) - 1 ELSE Len(UNITS) - 1
             whole == IntOf(SubSeq(size_f, unit_idx + 1, Len(size_f)))
             frac == SubSeq(size_f, 1, unit_idx)
             unit == <<UNITS[unit_idx + 1]>>
         IN  IF unit_idx = 0 THEN u64_to_string(size) \o unit
             ELSE IF whole >= 10
             THEN int_to_string(IF round_up(whole, frac)
                                THEN whole + 1 ELSE whole) \o unit
             ELSE LET tenth == MulCarry(frac, 10, 0)
                      t == IF round_up(tenth.carry, tenth.digits)
                           THEN tenth.carry + 1 ELSE tenth.carry
                  IN  int_to_string(whole + t \div 10) \o <<46>>
                        \o <<48 + (t % 10)>> \o unit


(***************************************************************************)
(* Timestamps and their rendering: format_time.                            *)
(***************************************************************************)

\* let six_months = Duration::from_secs(6 * 30 * 24 * 60 * 60)
six_months == 6 * 30 * 24 * 60 * 60

SecondsPerDay == 24 * 60 * 60

\* Largest distance, in seconds, of a tried timestamp from the threshold
\* and from the current time.
MaxSkew == 1

\* The readings of the clock tried (seconds since the epoch): 2023-11-14
\* 22:13:20, 2024-03-01 00:00:00 and 2024-08-29 00:00:00 UTC.
ClockSeconds == {1700000000, 1709251200, 1724889600}

\* SystemTime::now(): seconds and nanoseconds.
SystemTimes == [secs : ClockSeconds, nanos : {0, 1}]

\* The offsets of the local time zone from UTC tried, in seconds.
UtcOffsets == {0, 0 - 5 * 3600, 5 * 3600 + 1800}

\* The timestamps tried for a clock reading c: around the threshold, around
\* c, the epoch and before it.
TimestampsAt(c) ==
    { c - six_months + d : d \in (0 - MaxSkew)..MaxSkew }
      \union { c + d : d \in (0 - MaxSkew)..MaxSkew }
      \union { d : d \in (0 - MaxSkew)..MaxSkew }
      \union { c - 2 * six_months, c + six_months, 0 - SecondsPerDay }

\* The calendar date of the day z days after 1970-01-01 (proleptic
\* Gregorian calendar), as chrono computes it.
civil_from_days(z) ==
    LET zz == z + 719468
        era == zz \div 146097
        doe == zz - era * 146097
        yoe == (doe - doe \div 1460 + doe \div 36524 - doe \div 146096)
                 \div 365
        doy == doe - (365 * yoe + yoe \div 4 - yoe \div 100)
        mp == (5 * doy + 2) \div 153
        d == doy - (153 * mp + 2) \div 5 + 1
        m == IF mp < 10 THEN mp + 3 ELSE mp - 9
    IN  [year |-> yoe + era * 400 + (IF m <= 2 THEN 1 ELSE 0),
         month |-> m, day |-> d]

\* %b
MonthNames ==
    << <<74, 97, 110>>, <<70, 101, 98>>, <<77, 97, 114>>, <<65, 112, 114>>,
       <<77, 97, 121>>, <<74, 117, 110>>, <<74, 117, 108>>, <<65, 117, 103>>,
       <<83, 101, 112>>, <<79, 99, 116>>, <<78, 111, 118>>, <<68, 101, 99>> >>

\* %e: the day of the month, padded with a space to two places.
space_padded(n) == IF n < 10 THEN <<32, 48 + n>> ELSE int_to_string(n)

\* %H, %M: padded with a zero to two places.
zero_padded(n) == IF n < 10 THEN <<48, 48 + n>> ELSE int_to_string(n)

\* What a call of format_time comes to: a String, or a panic.
Returned(text) == [panic |-> FALSE, text |-> text]
Panic == [panic |-> TRUE, text |-> <<>>]

\* format_time, with the clock reading and the offset of the local zone it
\* gets from its environment.  mtime as u64 of a negative mtime is at least
\* 2^63 seconds, which UNIX_EPOCH + Duration cannot hold: the addition
\* panics.  duration_since fails when mtime is later than the clock.
format_time(mtime, clock, offset) ==
    IF mtime < 0 THEN Panic
    ELSE LET local == mtime + offset
             date == civil_from_days(local \div SecondsPerDay)
             monthday == MonthNames[date.month] \o <<32>>
                           \o space_padded(date.day)
             tod == local % SecondsPerDay
             show_year ==
                 IF mtime <= clock.secs
                 THEN \/ clock.secs - mtime > six_months
                      \/ /\ clock.secs - mtime = six_months
                         /\ clock.nanos > 0
                 ELSE TRUE
         IN  IF show_year
             THEN Returned(monthday \o <<32, 32>> \o int_to_string(date.year))
             ELSE Returned(monthday \o <<32>> \o zero_padded(tod \div 3600)
                             \o <<58>> \o zero_padded((tod % 3600) \div 60))


(***************************************************************************)
(* The long format: print_long_format, one line per entry.  The inode and  *)
(* block columns (off by default) and the " -> target" of a symbolic link  *)
(* are left out; the names of owner and group are what the name cache      *)
(* returns for the entry's uid and gid.                                    *)
(***************************************************************************)

\* Longest listing printed in long format.
MaxLong == 2

\* mode & bit != 0, bit a power of two.
has_bit(mode, bit) == (mode \div bit) % 2 = 1

\* mode & 0o170000
file_type(mode) == ((mode \div 4096) % 16) * 4096

\* format_mode: the type character and the nine permission characters.
format_mode(mode) ==
    LET t == file_type(mode)
        type_char == IF t = 16384 THEN 100
                     ELSE IF t = 40960 THEN 108
                     ELSE IF t = 8192 THEN 99
                     ELSE IF t = 24576 THEN 98
                     ELSE IF t = 4096 THEN 112
                     ELSE IF t = 49152 THEN 115
                     ELSE 45
        perms == <<114, 119, 120, 114, 119, 120, 114, 119, 120>>
    IN  <<type_char>>
          \o [i \in 1..9 |-> IF has_bit(mode, Pow2(9 - i)) THEN perms[i]
                             ELSE 45]

\* format "{:>width$}": spaces up to width, then the text; never cut.
pad_left(text, width) ==
    [j \in 1..(IF width > Len(text) THEN width - Len(text) ELSE 0) |-> Space]
      \o text

\* format!("{}, {}", major, minor) with major = (dev >> 24) & 0xFF and
\* minor = dev & 0xFFFFFF.
device_field(rdev) ==
    int_to_string((rdev \div 16777216) % 256) \o <<44, 32>>
      \o int_to_string(rdev % 16777216)

\* let size_or_device = ...
size_or_device(e, cfg) ==
    IF file_type(e.mode) = 8192 \/ file_type(e.mode) = 24576
    THEN device_field(e.rdev)
    ELSE format_size(e.len, cfg.human_readable)

RECURSIVE max_of(_)
\* .max().unwrap_or(0)
max_of(ns) ==
    IF ns = <<>> THEN 0
    ELSE LET rest == max_of(Tail(ns))
         IN  IF Head(ns) > rest THEN Head(ns) ELSE rest

\* let max_size_width = ... format_size(e.metadata.len(), ..).len() ...
max_size_width(es, cfg) ==
    max_of([i \in DOMAIN es |-> Len(format_size(es[i].len, cfg.human_readable))])

\* let max_link_width = ...
max_link_width(es) ==
    max_of([i \in DOMAIN es |-> Len(int_to_string(es[i].nlink))])

\* The line of one entry: the write! of the columns, the name, the newline.
long_line(e, es, cfg, clock) ==
    format_mode(e.mode) \o <<Space>>
      \o pad_left(int_to_string(e.nlink), max_link_width(es)) \o <<Space>>
      \o pad_left(e.user, 8) \o <<Space>>
      \o pad_left(e.group, 8) \o <<Space>>
      \o pad_left(size_or_device(e, cfg), max_size_width(es, cfg))
      \o <<Space>>
      \o format_time(e.time, clock, cfg.utc_offset).text \o <<Space>>
      \o e.name

RECURSIVE long_lines(_, _, _, _)
\* The loop over the entries from entry i on; a panic of format_time ends
\* the process with the lines written so far.
long_lines(es, i, cfg, clock) ==
    IF i > Len(es) THEN <<>>
    ELSE IF format_time(es[i].time, clock, cfg.utc_offset).panic THEN <<>>
    ELSE <<long_line(es[i], es, cfg, clock)>>
           \o long_lines(es, i + 1, cfg, clock)

\* print_long_format
print_long_format(es, cfg, clock) == long_lines(es, 1, cfg, clock)

\* "root", "developer"
OwnerNames == { <<114, 111, 111, 116>>,
                <<100, 101, 118, 101, 108, 111, 112, 101, 114>> }

\* The entries tried: regular files of 5 and 2048 bytes, a directory, and
\* character and block devices with several device numbers.
LongProfiles ==
    { [mode |-> 33188, nlink |-> 1, len |-> <<5>>, rdev |-> 0],
      [mode |-> 33261, nlink |-> 12, len |-> <<0, 2>>, rdev |-> 0],
      [mode |-> 16877, nlink |-> 2, len |-> <<0, 4>>, rdev |-> 0],
      [mode |-> 8592, nlink |-> 1, len |-> <<0>>, rdev |-> 0],
      [mode |-> 8592, nlink |-> 1, len |-> <<0>>, rdev |-> 1025],
      [mode |-> 25008, nlink |-> 1, len |-> <<0>>,
       rdev |-> 8 * 16777216 + 1] }

LongEntry(i, p, owner) ==
    [name |-> DecoratedName(i - 1, 1), mode |-> p.mode, nlink |-> p.nlink,
     len |-> p.len, rdev |-> p.rdev, user |-> owner, group |-> owner,
     time |-> 1700000000 - i]

LongListings ==
    UNION { { [i \in 1..n |-> LongEntry(i, ps[i], os[i])] :
                ps \in [1..n -> LongProfiles], os \in [1..n -> OwnerNames] }
            : n \in 1..MaxLong }

InitLong ==
    /\ phase = "long"
    /\ entries \in LongListings
    /\ config \in [human_readable : BOOLEAN, utc_offset : {0}]
    /\ now \in [secs : {1700000000}, nanos : {0}]
    /\ stdout = <<>>
    /\ paths = <<>>
    /\ pi = 1
    /\ stack = <<>>
    /\ raw = <<>>
    /\ fs = <<>>
    /\ gone = {}
    /\ result = Ok(<<>>)
    /\ stderr = <<>>
    /\ names = <<>>
    /\ winsize = <<>>
    /\ reads = <<>>
    /\ input = <<>>
    /\ ret = <<>>
    /\ CacheIdle

\* list_directory, line 365: the listing is printed in long format.
PrintLong ==
    /\ phase = "long"
    /\ stdout' = print_long_format(entries, config, now)
    /\ phase' = "printed"
    /\ UNCHANGED <<config, raw, entries, fs, gone, result, stderr, paths, pi,
                   stack, cacheVars, names, winsize, reads, input, ret, now>>

NextLong == PrintLong

SpecLong == InitLong /\ [][NextLong]_vars

\* The column at which the timestamp of line i begins: the line ends with
\* the 12 characters of the timestamp, a blank and the name.
TimeColumn(i) == Len(stdout[i]) - Len(entries[i].name) - 12

\* C11: every line of a long listing shows its size field (the size, or
\* "major, minor" for a block or character device, with major = bits 24-31
\* and minor = the low 24 bits of the device number) right-aligned in a
\* field as wide as the widest size field of the listing, so the timestamp
\* begins at the same column on every line.
C11_SizeAligned ==
    (phase = "printed") =>
        LET shown == [i \in DOMAIN entries |->
                        size_or_device(entries[i], config)]
            width == max_of([i \in DOMAIN entries |-> Len(shown[i])])
        IN  /\ Len(stdout) = Len(entries)
            /\ \A i \in DOMAIN stdout :
                 /\ TimeColumn(i) - 1 - width >= 1
                 /\ SubSeq(stdout[i], TimeColumn(i) - 1 - width,
                           TimeColumn(i) - 2) = pad_left(shown[i], width)
            /\ \A i, j \in DOMAIN stdout : TimeColumn(i) = TimeColumn(j)


(***************************************************************************)
(* format_time on its own: every tried timestamp under every tried clock   *)
(* reading and time zone.                                                  *)
(***************************************************************************)

InitTime ==
    /\ phase = "time"
    /\ now \in SystemTimes
    /\ config \in [utc_offset : UtcOffsets]
    /\ input \in TimestampsAt(now.secs)
    /\ ret = <<>>
    /\ stdout = <<>>
    /\ paths = <<>>
    /\ pi = 1
    /\ stack = <<>>
    /\ raw = <<>>
    /\ entries = <<>>
    /\ fs = <<>>
    /\ gone = {}
    /\ result = Ok(<<>>)
    /\ stderr = <<>>
    /\ names = <<>>
    /\ winsize = <<>>
    /\ reads = <<>>
    /\ CacheIdle

\* print_long_format, line 635: let time_str = format_time(time_val).
FormatTime ==
    /\ phase = "time"
    /\ ret' = format_time(input, now, config.utc_offset)
    /\ phase' = "formatted"
    /\ UNCHANGED <<config, raw, entries, fs, gone, result, stderr, driverVars,
                   cacheVars, names, winsize, reads, input, now>>

NextTime == FormatTime

SpecTime == InitTime /\ [][NextTime]_vars

IsDigit(ch) == ch >= 48 /\ ch <= 57

\* "Mon DD" and a blank: the part the two forms share.
HasMonthDay(text) ==
    /\ Len(text) = 12
    /\ \E m \in DOMAIN MonthNames : SubSeq(text, 1, 3) = MonthNames[m]
    /\ text[4] = Space
    /\ text[5] = Space \/ IsDigit(text[5])
    /\ IsDigit(text[6])
    /\ text[7] = Space

\* "Mon DD  YYYY"
IsYearForm(text) ==
    /\ HasMonthDay(text)
    /\ text[8] = Space
    /\ \A i \in 9..12 : IsDigit(text[i])

\* "Mon DD HH:MM"
IsTimeOfDayForm(text) ==
    /\ HasMonthDay(text)
    /\ IsDigit(text[8]) /\ IsDigit(text[9])
    /\ text[10] = 58
    /\ IsDigit(text[11]) /\ IsDigit(text[12])

\* now - t exceeds six months, the clock counting nanoseconds.
AgeExceedsSixMonths ==
    \/ now.secs - input > six_months
    \/ now.secs - input = six_months /\ now.nanos > 0

\* C12: for every timestamp t and every current time, format_time returns
\* the year form "Mon DD  YYYY" exactly when now - t exceeds 180 days
\* (15,552,000 seconds), and the time-of-day form "Mon DD HH:MM" in every
\* other case.
C12_YearFormIffOld ==
    (phase = "formatted") =>
        /\ ~ret.panic
        /\ IF AgeExceedsSixMonths THEN IsYearForm(ret.text)
                                  ELSE IsTimeOfDayForm(ret.text)


(***************************************************************************)
(* format_size on its own: every tried size, with and without -h.          *)
(***************************************************************************)

InitSize ==
    /\ phase = "size"
    /\ input \in U64(U64Limbs)
    /\ config \in [human_readable : BOOLEAN]
    /\ ret = <<>>
    /\ now = <<>>
    /\ stdout = <<>>
    /\ paths = <<>>
    /\ pi = 1
    /\ stack = <<>>
    /\ raw = <<>>
    /\ entries = <<>>
    /\ fs = <<>>
    /\ gone = {}
    /\ result = Ok(<<>>)
    /\ stderr = <<>>
    /\ names = <<>>
    /\ winsize = <<>>
    /\ reads = <<>>
    /\ CacheIdle

\* print_long_format, line 629: format_size(entry.metadata.len(), ..).
FormatSize ==
    /\ phase = "size"
    /\ ret' = Returned(format_size(input, config.human_readable))
    /\ phase' = "formatted"
    /\ UNCHANGED <<config, raw, entries, fs, gone, result, stderr, driverVars,
                   cacheVars, names, winsize, reads, input, now>>

NextSize == FormatSize

SpecSize == InitSize /\ [][NextSize]_vars

\* The number a string of decimal digits stands for (small numbers only).
RECURSIVE ParseInt(_)
ParseInt(text) ==
    IF text = <<>> THEN 0
    ELSE 10 * ParseInt(SubSeq(text, 1, Len(text) - 1))
           + (text[Len(text)] - 48)

\* The digits of a decimal string as a number in base 1024.
RECURSIVE ParseU64(_)
ParseU64(text) ==
    IF text = <<>> THEN <<0>>
    ELSE LET high == MulCarry(ParseU64(SubSeq(text, 1, Len(text) - 1)), 10,
                              text[Len(text)] - 48)
         IN  Normal(high.digits \o <<high.carry>>)

AllDigits(text) == text # <<>> /\ \A i \in DOMAIN text : IsDigit(text[i])

\* x <= y for two numbers in base 1024 without leading zeros.
RECURSIVE LeqLimbs(_, _)
LeqLimbs(x, y) ==
    IF Len(x) # Len(y) THEN Len(x) < Len(y)
    ELSE IF x = <<>> THEN TRUE
    ELSE IF x[Len(x)] # y[Len(y)] THEN x[Len(x)] < y[Len(y)]
    ELSE LeqLimbs(SubSeq(x, 1, Len(x) - 1), SubSeq(y, 1, Len(y) - 1))

\* x + y in base 1024.
RECURSIVE AddLimbs(_, _, _)
AddLimbs(x, y, carry) ==
    IF x = <<>> /\ y = <<>> THEN (IF carry = 0 THEN <<>> ELSE <<carry>>)
    ELSE LET a == IF x = <<>> THEN 0 ELSE Head(x)
             b == IF y = <<>> THEN 0 ELSE Head(y)
             cur == a + b + carry
         IN  <<cur % Base>>
               \o AddLimbs(IF x = <<>> THEN <<>> ELSE Tail(x),
                           IF y = <<>> THEN <<>> ELSE Tail(y), cur \div Base)

\* n * 1024^k in base 1024, n below 1024^2.
Scaled(n, k) ==
    Normal([i \in 1..k |-> 0] \o <<n % Base, n \div Base>>)

\* |x - y| <= 1024^k / 2
WithinHalf(x, y, k) ==
    LET half == [i \in 1..k |-> IF i = k THEN Base \div 2 ELSE 0]
    IN  /\ LeqLimbs(Normal(x), Normal(AddLimbs(y, half, 0)))
        /\ LeqLimbs(Normal(y), Normal(AddLimbs(x, half, 0)))

\* C13: with human-readable sizes, 0 is "0B"; any other size is divided by
\* 1024 while it is at least 1024 and a unit above remains (B K M G T P) and
\* is shown, to the nearest, as the whole byte count in the byte tier, with
\* one decimal place when the scaled value is below 10, and with none
\* otherwise; 1023 is "1023B", 1024 is "1.0K", 10240 is "10K".  Without the
\* option the decimal byte count is shown.
C13_HumanReadable ==
    (phase = "formatted") =>
        LET text == ret.text
            n == Len(text)
        IN  IF ~config.human_readable
            THEN AllDigits(text) /\ ParseU64(text) = input
                   /\ (n > 1 => text[1] # 48)
            ELSE IF IsZero(input) THEN text = <<48, 66>>
            ELSE LET value == as_f64(input)
                     k == IF Len(value) - 1 < 5 THEN Len(value) - 1 ELSE 5
                     whole == IntOf(SubSeq(value, k + 1, Len(value)))
                     number == SubSeq(text, 1, n - 1)
                 IN  /\ n >= 2
                     /\ text[n] = UNITS[k + 1]
                     /\ IF k = 0
                        THEN AllDigits(number) /\ ParseU64(number) = input
                        ELSE IF whole < 10
                        THEN /\ Len(number) >= 3
                             /\ number[Len(number) - 1] = 46
                             /\ IsDigit(number[Len(number)])
                             /\ AllDigits(SubSeq(number, 1, Len(number) - 2))
                             /\ WithinHalf(
                                  Scaled(10 * ParseInt(SubSeq(number, 1,
                                                         Len(number) - 2))
                                           + number[Len(number)] - 48, k),
                                  LET p == MulCarry(value, 10, 0)
                                  IN  p.digits \o <<p.carry>>, k)
                        ELSE /\ AllDigits(number)
                             /\ WithinHalf(Scaled(ParseInt(number), k),
                                           value, k)
                     /\ (input = <<1023>> => text = <<49, 48, 50, 51, 66>>)
                     /\ (input = <<0, 1>> => text = <<49, 46, 48, 75>>)
                     /\ (input = <<0, 10>> => text = <<49, 48, 75>>)

\* 10239 bytes, 9.999 K, have been rendered: "10.0K".
C13_Witness ==
    /\ phase = "formatted"
    /\ config.human_readable
    /\ input = <<Base - 1, 9>>
    /\ ret.text = <<49, 48, 46, 48, 75>>

====
